---- MODULE Spec2Model ----
\* MinIO machine charm (src/src/charm.py): the three lifecycle handlers
\* _on_install, _on_config_changed and _on_credential_requested, run one at a
\* time by the orchestrator against the host (package, principals, data
\* directory, environment file, init system) and the relation data.
EXTENDS Integers, Sequences, FiniteSets, TLC

VARIABLES
    config,     \* self.config: the charm configuration in force
    isLeader,   \* self.unit.is_leader()
    status,     \* self.unit.status
    debFile,    \* /tmp/minio.deb has been downloaded
    installed,  \* the package has been installed by dpkg
    groups,     \* grp.getgrall(): the group database, in file order
    users,      \* pwd.getpwall(): the user database, in file order
    dataDir,    \* MINIO_DATA_DIR: [exists, owner]
    enabled,    \* the service is enabled in the init system
    envFile,    \* content of SYSTEMD_ENV_FILE
    connInfo,   \* relation id -> connection info last handed to the S3 provider
    handled,    \* the event of the current dispatch (NoEvent between dispatches)
    calls,      \* the external calls made by the current dispatch, in order
    raised,     \* the current dispatch ended with an exception
    steps       \* number of events and operator interventions so far

vars == <<config, isLeader, status, debFile, installed, groups, users, dataDir,
          enabled, envFile, connInfo, handled, calls, raised, steps>>

-----------------------------------------------------------------------------
\* Bounds and input domains.

MaxSteps == 4
MaxRelations == 2

RelationIds == 1..MaxRelations
Ports == {9000}
ConsolePorts == {9001}
RootUsers == {"admin"}
RootPasswords == {"secret"}
Regions == {"us-east-1", ""}
Buckets == {"", "archive"}
UriStyles == {"", "path"}
RequestedBuckets == {"images", "logs"}
BindAddresses == {"10.0.0.1"}
StaleEnvFile == "MINIO_OPTS=--old\nEXTRA=1\n"

-----------------------------------------------------------------------------
\* Class attributes.

MINIO_DATA_DIR == "/var/lib/minio"
MINIO_SYSTEM_USER == "minio-user"
MINIO_SYSTEM_GROUP == "minio-user"
UNIT_ACTIVE_STATUS == [name |-> "active", message |-> "Unit is ready"]

-----------------------------------------------------------------------------
\* Helpers.

Digits == <<"0", "1", "2", "3", "4", "5", "6", "7", "8", "9">>

\* "{}".format(n) for a non-negative integer n: its decimal digits.
RECURSIVE IntToStr(_)
IntToStr(n) ==
    IF n < 10 THEN Digits[n + 1]
    ELSE IntToStr(n \div 10) \o Digits[(n % 10) + 1]

\* name in [e.name for e in entries]
Exists(entries, name) == \E i \in 1..Len(entries) : entries[i].name = name

RECURSIVE Concat(_)
Concat(lines) == IF lines = <<>> THEN "" ELSE Head(lines) \o Concat(Tail(lines))

NoEvent == [name |-> "none", relation |-> 0, bucket |-> ""]
Event(n) == [name |-> n, relation |-> 0, bucket |-> ""]
NoData == [k \in {} |-> ""]

\* The host, relation and unit state a handler works on, as one record.
Cur ==
    [status |-> status, debFile |-> debFile, installed |-> installed,
     groups |-> groups, users |-> users, dataDir |-> dataDir,
     enabled |-> enabled, envFile |-> envFile, connInfo |-> connInfo,
     calls |-> <<>>, raised |-> FALSE]

\* One external call: skipped when an earlier call of the handler raised;
\* otherwise recorded, and either its effect happens or it raises.
Call(s, op, ok, after) ==
    IF s.raised THEN s
    ELSE IF ok THEN [after EXCEPT !.calls = Append(s.calls, [op |-> op, ok |-> TRUE])]
    ELSE [s EXCEPT !.calls = Append(s.calls, [op |-> op, ok |-> FALSE]),
                   !.raised = TRUE]

-----------------------------------------------------------------------------
\* System resource provisioner.

\* Variant: the membership test is left out.
add_system_group_unchecked(s, ok) ==
    IF s.raised THEN s
    ELSE Call(s, "groupadd", ok,
              [s EXCEPT !.groups = Append(@, [name |-> MINIO_SYSTEM_GROUP])])

add_system_group(s, ok) ==
    IF s.raised \/ Exists(s.groups, MINIO_SYSTEM_GROUP) THEN s
    ELSE Call(s, "groupadd", ok,
              [s EXCEPT !.groups = Append(@, [name |-> MINIO_SYSTEM_GROUP])])

add_system_user(s, ok) ==
    IF s.raised \/ Exists(s.users, MINIO_SYSTEM_USER) THEN s
    ELSE Call(s, "useradd", ok,
              [s EXCEPT !.users = Append(@, [name |-> MINIO_SYSTEM_USER,
                                                 group |-> MINIO_SYSTEM_GROUP])])

\* _on_install: fail names the external call that fails, "none" if none does.
InstallOps == <<"urlretrieve", "dpkg", "groupadd", "useradd", "makedirs",
                "chown", "enable">>

\* Variant: the user is provisioned before the group.
on_install_user_before_group(s, fail) ==
    LET s1 == Call(s, "urlretrieve", fail # "urlretrieve",
                   [s EXCEPT !.debFile = TRUE])
        s2 == Call(s1, "dpkg", fail # "dpkg", [s1 EXCEPT !.installed = TRUE])
        s3 == add_system_user(s2, fail # "useradd")
        s4 == add_system_group(s3, fail # "groupadd")
        s5 == Call(s4, "makedirs", fail # "makedirs",
                   [s4 EXCEPT !.dataDir.exists = TRUE])
        s6 == Call(s5, "chown", fail # "chown",
                   [s5 EXCEPT !.dataDir.owner =
                        <<MINIO_SYSTEM_USER, MINIO_SYSTEM_GROUP>>])
        s7 == Call(s6, "enable", fail # "enable", [s6 EXCEPT !.enabled = TRUE])
    IN  s7

on_install(s, fail) ==
    LET s1 == Call(s, "urlretrieve", fail # "urlretrieve",
                   [s EXCEPT !.debFile = TRUE])
        s2 == Call(s1, "dpkg", fail # "dpkg", [s1 EXCEPT !.installed = TRUE])
        s3 == add_system_group(s2, fail # "groupadd")
        s4 == add_system_user(s3, fail # "useradd")
        s5 == Call(s4, "makedirs", fail # "makedirs",
                   [s4 EXCEPT !.dataDir.exists = TRUE])
        s6 == Call(s5, "chown", fail # "chown",
                   [s5 EXCEPT !.dataDir.owner =
                        <<MINIO_SYSTEM_USER, MINIO_SYSTEM_GROUP>>])
        s7 == Call(s6, "enable", fail # "enable", [s6 EXCEPT !.enabled = TRUE])
    IN  s7

-----------------------------------------------------------------------------
\* Environment file writer.

\* minio_opts and minio_env: the five entries, in insertion order.
minio_opts(cfg) ==
    "--address :" \o IntToStr(cfg.port) \o " --console-address :"
        \o IntToStr(cfg.consolePort)

minio_env(cfg) ==
    << <<"MINIO_ROOT_USER", cfg.rootUser>>,
       <<"MINIO_ROOT_PASSWORD", cfg.rootPassword>>,
       <<"MINIO_VOLUMES", MINIO_DATA_DIR>>,
       <<"MINIO_REGION", cfg.region>>,
       <<"MINIO_OPTS", minio_opts(cfg)>> >>

\* "{}={}\n".format(k, v)
EnvLine(kv) == kv[1] \o "=" \o kv[2] \o "\n"

\* Variant: the file is opened in append mode.
write_systemd_env_file_append(s, cfg, w) ==
    LET env == minio_env(cfg)
        written == [i \in 1..(IF w < 0 THEN 0 ELSE w) |-> EnvLine(env[i])]
    IN  IF s.raised THEN s
        ELSE IF w < 0 THEN Call(s, "write_env", FALSE, s)
        ELSE IF w < Len(env)
             THEN Call([s EXCEPT !.envFile = @ \o Concat(written)], "write_env", FALSE, s)
        ELSE Call(s, "write_env", TRUE, [s EXCEPT !.envFile = @ \o Concat(written)])

\* open(SYSTEMD_ENV_FILE, "w") and the writes: w = -1 when open raises (file
\* untouched), w = k < 5 when the I/O fails after k lines reached the file
\* (truncated, partial), w = 5 when every line is written.
write_systemd_env_file(s, cfg, w) ==
    LET env == minio_env(cfg)
        written == [i \in 1..(IF w < 0 THEN 0 ELSE w) |-> EnvLine(env[i])]
    IN  IF s.raised THEN s
        ELSE IF w < 0 THEN Call(s, "write_env", FALSE, s)
        ELSE IF w < Len(env)
             THEN Call([s EXCEPT !.envFile = Concat(written)], "write_env", FALSE, s)
        ELSE Call(s, "write_env", TRUE, [s EXCEPT !.envFile = Concat(written)])

\* Variant: a failed restart is reported through the unit status.
restart_service_sets_blocked(s, ok) ==
    Call([s EXCEPT !.status = [name |-> "blocked", message |-> "restart failed"]],
         "restart", ok, s)

\* Service lifecycle controller.
restart_service(s, ok) == Call(s, "restart", ok, s)

\* self.unit.status = st
set_status(s, st) == Call(s, "status_set", TRUE, [s EXCEPT !.status = st])

\* Variant: the service is restarted before the file is written.
on_config_changed_restart_first(s, cfg, w, restartOk) ==
    LET s1 == restart_service(s, restartOk)
        s2 == write_systemd_env_file(s1, cfg, w)
        s3 == set_status(s2, UNIT_ACTIVE_STATUS)
    IN  s3

\* Variant: the status is set before the service is restarted.
on_config_changed_status_early(s, cfg, w, restartOk) ==
    LET s1 == write_systemd_env_file(s, cfg, w)
        s2 == set_status(s1, UNIT_ACTIVE_STATUS)
        s3 == restart_service(s2, restartOk)
    IN  s3

on_config_changed(s, cfg, w, restartOk) ==
    LET s1 == write_systemd_env_file(s, cfg, w)
        s2 == restart_service(s1, restartOk)
        s3 == set_status(s2, UNIT_ACTIVE_STATUS)
    IN  s3

-----------------------------------------------------------------------------
\* Credential broker.

endpoint(addr, cfg) == "http://" \o addr \o ":" \o IntToStr(cfg.port)

\* Variant: the operands of "or" are exchanged.
Or_swapped(a, b) == IF b # "" THEN b ELSE a

\* a or b on strings: a unless it is empty
Or(a, b) == IF a # "" THEN a ELSE b

\* Variant: s3-uri-style is always part of the descriptor.
conn_data_always_style(cfg, addr, evBucket) ==
    [k \in {"bucket", "access-key", "secret-key", "endpoint", "region",
            "s3-uri-style"} |->
        CASE k = "bucket" -> Or(cfg.bucket, evBucket)
          [] k = "access-key" -> cfg.rootUser
          [] k = "secret-key" -> cfg.rootPassword
          [] k = "endpoint" -> endpoint(addr, cfg)
          [] k = "region" -> cfg.region
          [] k = "s3-uri-style" -> cfg.uriStyle]

conn_data(cfg, addr, evBucket) ==
    LET base == [k \in {"bucket", "access-key", "secret-key", "endpoint", "region"} |->
                    CASE k = "bucket" -> Or(cfg.bucket, evBucket)
                      [] k = "access-key" -> cfg.rootUser
                      [] k = "secret-key" -> cfg.rootPassword
                      [] k = "endpoint" -> endpoint(addr, cfg)
                      [] k = "region" -> cfg.region]
    IN  IF cfg.uriStyle # "" THEN ("s3-uri-style" :> cfg.uriStyle) @@ base
        ELSE base

\* Variant: the descriptor is written to every relation.
update_connection_info_broadcast(s, rel, data) ==
    Call(s, "update_connection_info", TRUE,
         [s EXCEPT !.connInfo = [r \in DOMAIN @ |-> data]])

update_connection_info(s, rel, data) ==
    Call(s, "update_connection_info", TRUE, [s EXCEPT !.connInfo[rel] = data])

\* Variant: no leadership test.
on_credential_requested_ungated(s, cfg, leader, addr, ev) ==
    update_connection_info(s, ev.relation, conn_data(cfg, addr, ev.bucket))

on_credential_requested(s, cfg, leader, addr, ev) ==
    IF ~leader THEN s
    ELSE update_connection_info(s, ev.relation, conn_data(cfg, addr, ev.bucket))

-----------------------------------------------------------------------------
\* Dispatch: the handler's result becomes the new state.

\* The explored behaviours are bounded in length.
Tick == steps < MaxSteps /\ steps' = steps + 1

Commit(ev, r) ==
    /\ handled' = ev
    /\ status' = r.status
    /\ debFile' = r.debFile
    /\ installed' = r.installed
    /\ groups' = r.groups
    /\ users' = r.users
    /\ dataDir' = r.dataDir
    /\ enabled' = r.enabled
    /\ envFile' = r.envFile
    /\ connInfo' = r.connInfo
    /\ calls' = r.calls
    /\ raised' = r.raised
    /\ Tick
    /\ UNCHANGED <<config, isLeader>>

Install ==
    \E fail \in {InstallOps[i] : i \in 1..Len(InstallOps)} \cup {"none"} :
        Commit(Event("install"), on_install(Cur, fail))

ConfigChanged ==
    \E w \in -1..5, restartOk \in BOOLEAN :
        Commit(Event("config_changed"),
               on_config_changed(Cur, config, w, restartOk))

CredentialsRequested ==
    \E rel \in RelationIds, b \in RequestedBuckets, addr \in BindAddresses :
        LET ev == [name |-> "credentials_requested", relation |-> rel, bucket |-> b]
        IN  Commit(ev, on_credential_requested(Cur, config, isLeader, addr, ev))

\* The operator changes the configuration (between dispatches).
Idle ==
    /\ handled' = NoEvent
    /\ calls' = <<>>
    /\ raised' = FALSE
    /\ Tick
    /\ UNCHANGED <<status, debFile, installed, groups, users, dataDir, enabled,
                   envFile, connInfo>>

Configs ==
    [port : Ports, consolePort : ConsolePorts, rootUser : RootUsers,
     rootPassword : RootPasswords, region : Regions, bucket : Buckets,
     uriStyle : UriStyles]

SetConfig ==
    /\ \E c \in Configs : c # config /\ config' = c
    /\ UNCHANGED isLeader
    /\ Idle

\* Leadership moves to or away from this unit (between dispatches).
SetLeader ==
    /\ isLeader' = ~isLeader
    /\ UNCHANGED config
    /\ Idle

Init ==
    /\ config = [port |-> 9000, consolePort |-> 9001, rootUser |-> "admin",
                 rootPassword |-> "secret", region |-> "us-east-1",
                 bucket |-> "", uriStyle |-> ""]
    /\ isLeader = FALSE
    /\ status = [name |-> "unknown", message |-> ""]
    /\ debFile = FALSE
    /\ installed = FALSE
    /\ groups \in {<<[name |-> "root"]>>,
                   <<[name |-> "root"], [name |-> MINIO_SYSTEM_GROUP]>>}
    /\ users \in {<<[name |-> "root", group |-> "root"]>>,
                  <<[name |-> "root", group |-> "root"],
                    [name |-> MINIO_SYSTEM_USER, group |-> MINIO_SYSTEM_GROUP]>>}
    /\ dataDir = [exists |-> FALSE, owner |-> <<"root", "root">>]
    /\ enabled = FALSE
    /\ envFile \in {"", StaleEnvFile}
    /\ connInfo = [r \in RelationIds |-> NoData]
    /\ handled = NoEvent
    /\ calls = <<>>
    /\ raised = FALSE
    /\ steps = 0

Next ==
    \/ Install
    \/ ConfigChanged
    \/ CredentialsRequested
    \/ SetConfig
    \/ SetLeader

Spec == Init /\ [][Next]_vars

-----------------------------------------------------------------------------
\* Observations on the external calls of the current dispatch.

Invoked(c, op) == \E i \in 1..Len(c) : c[i].op = op
Succeeded(c, op) == \E i \in 1..Len(c) : c[i].op = op /\ c[i].ok
Failed(c, op) == \E i \in 1..Len(c) : c[i].op = op /\ ~c[i].ok
Count(entries, name) == Cardinality({i \in 1..Len(entries) : entries[i].name = name})

\* The environment file for a configuration, written out byte for byte.
Rendered(cfg) ==
    "MINIO_ROOT_USER=" \o cfg.rootUser \o "\n"
    \o "MINIO_ROOT_PASSWORD=" \o cfg.rootPassword \o "\n"
    \o "MINIO_VOLUMES=/var/lib/minio\n"
    \o "MINIO_REGION=" \o cfg.region \o "\n"
    \o "MINIO_OPTS=--address :" \o IntToStr(cfg.port)
    \o " --console-address :" \o IntToStr(cfg.consolePort) \o "\n"

HostUnchanged ==
    UNCHANGED <<debFile, installed, groups, users, dataDir, enabled, envFile>>

-----------------------------------------------------------------------------
\* C1: in a config-changed dispatch the restart command is invoked only after
\* the environment-file write of the same dispatch succeeded; when the write
\* fails, restart is not invoked in that dispatch.
C1_RestartOnlyAfterWrite ==
    /\ \A i \in 1..Len(calls) :
          calls[i].op = "restart" =>
              \E j \in 1..(i - 1) : calls[j].op = "write_env" /\ calls[j].ok
    /\ Failed(calls, "write_env") => ~Invoked(calls, "restart")

C1_Witness ==
    /\ handled.name = "config_changed"
    /\ Len(calls) >= 2
    /\ calls[1] = [op |-> "write_env", ok |-> TRUE]
    /\ calls[2].op = "restart"

\* C2: a config-changed dispatch sets the unit status only when both the
\* environment-file write and the restart of that dispatch succeeded.
C2_ActiveOnlyAfterBoth ==
    handled.name = "config_changed" =>
        /\ Invoked(calls, "status_set") =>
              Succeeded(calls, "write_env") /\ Succeeded(calls, "restart")
        /\ (Failed(calls, "write_env") \/ Failed(calls, "restart")) =>
              ~Invoked(calls, "status_set")

C2_Witness ==
    /\ handled.name = "config_changed"
    /\ Invoked(calls, "status_set")
    /\ status = UNIT_ACTIVE_STATUS

\* C3: a credentials-requested event handled by a non-leader publishes
\* nothing and changes no state; a publication happens only on the leader.
C3_NonLeaderNoOp ==
    [][/\ (handled'.name = "credentials_requested" /\ ~isLeader) =>
              /\ calls' = <<>>
              /\ ~raised'
              /\ HostUnchanged
              /\ UNCHANGED <<connInfo, status, config, isLeader>>
       /\ connInfo' # connInfo => isLeader
       /\ Invoked(calls', "update_connection_info") => isLeader]_vars

C3_Witness ==
    /\ handled.name = "credentials_requested"
    /\ ~isLeader
    /\ calls = <<>>

\* C4: the bucket published by the leader is the configured bucket when that
\* is non-empty, and the bucket named in the request otherwise.
C4_BucketFallback ==
    (handled.name = "credentials_requested" /\ isLeader) =>
        /\ "bucket" \in DOMAIN connInfo[handled.relation]
        /\ config.bucket # "" =>
              connInfo[handled.relation]["bucket"] = config.bucket
        /\ config.bucket = "" =>
              connInfo[handled.relation]["bucket"] = handled.bucket

C4_Witness ==
    /\ handled.name = "credentials_requested"
    /\ isLeader
    /\ config.bucket = "archive"
    /\ handled.bucket = "images"
    /\ connInfo[handled.relation]["bucket"] = "archive"

\* C5: the descriptor published by the leader has an s3-uri-style field
\* exactly when the configured uri-style is non-empty, holding that value.
C5_UriStyleOptional ==
    (handled.name = "credentials_requested" /\ isLeader) =>
        LET d == connInfo[handled.relation]
        IN  /\ ("s3-uri-style" \in DOMAIN d) <=> (config.uriStyle # "")
            /\ "s3-uri-style" \in DOMAIN d => d["s3-uri-style"] = config.uriStyle

C5_Witness ==
    /\ handled.name = "credentials_requested"
    /\ isLeader
    /\ config.uriStyle = ""
    /\ "endpoint" \in DOMAIN connInfo[handled.relation]
    /\ "s3-uri-style" \notin DOMAIN connInfo[handled.relation]

\* C6: a credential request handled by the leader makes exactly one
\* publication, to the relation that issued the request; the data of every
\* other relation is unchanged.
C6_OnePublication ==
    [][(handled'.name = "credentials_requested" /\ isLeader) =>
          /\ calls' = <<[op |-> "update_connection_info", ok |-> TRUE]>>
          /\ "endpoint" \in DOMAIN connInfo'[handled'.relation]
          /\ connInfo'[handled'.relation]["bucket"] \in {config.bucket, handled'.bucket}
          /\ \A r \in RelationIds :
                r # handled'.relation => connInfo'[r] = connInfo[r]]_vars

C6_Witness ==
    /\ handled.name = "credentials_requested"
    /\ isLeader
    /\ Len(calls) = 1
    /\ \E r \in RelationIds : r # handled.relation /\ connInfo[r] = NoData

\* C7: install runs download, package install, group, user, data directory,
\* ownership, enable in that order; a failing step ends the dispatch, the
\* service is enabled only when every earlier step succeeded, and what the
\* earlier steps did stays done.
C7_Skipped(op) ==
    \/ op = "groupadd" /\ Exists(groups, MINIO_SYSTEM_GROUP)
    \/ op = "useradd" /\ Exists(users, MINIO_SYSTEM_USER)

C7_Expected ==
    LET Keep(op) == ~C7_Skipped(op) IN SelectSeq(InstallOps, Keep)

C7_InstallOrder ==
    [][handled'.name = "install" =>
          LET n == Len(calls') IN
          /\ n >= 1 /\ n <= Len(C7_Expected)
          /\ \A i \in 1..n : calls'[i].op = C7_Expected[i]
          /\ \A i \in 1..(n - 1) : calls'[i].ok
          /\ raised' <=> ~calls'[n].ok
          /\ ~raised' => n = Len(C7_Expected)
          /\ Invoked(calls', "enable") =>
                /\ n = Len(C7_Expected)
                /\ \A op \in {"urlretrieve", "dpkg", "makedirs", "chown"} :
                      Succeeded(calls', op)
                /\ Exists(groups', MINIO_SYSTEM_GROUP)
                /\ Exists(users', MINIO_SYSTEM_USER)
          /\ (enabled' /\ ~enabled) => Succeeded(calls', "enable")
          /\ (debFile \/ Succeeded(calls', "urlretrieve")) => debFile'
          /\ (installed \/ Succeeded(calls', "dpkg")) => installed'
          /\ (Exists(groups, MINIO_SYSTEM_GROUP) \/ Succeeded(calls', "groupadd"))
                => Exists(groups', MINIO_SYSTEM_GROUP)
          /\ (Exists(users, MINIO_SYSTEM_USER) \/ Succeeded(calls', "useradd"))
                => Exists(users', MINIO_SYSTEM_USER)
          /\ (dataDir.exists \/ Succeeded(calls', "makedirs")) => dataDir'.exists
          /\ Succeeded(calls', "chown") =>
                dataDir'.owner = <<MINIO_SYSTEM_USER, MINIO_SYSTEM_GROUP>>
          /\ enabled => enabled']_vars

C7_Witness ==
    /\ handled.name = "install"
    /\ raised
    /\ Failed(calls, "chown")
    /\ Succeeded(calls, "groupadd")
    /\ Exists(groups, MINIO_SYSTEM_GROUP)
    /\ dataDir.exists
    /\ ~enabled

\* C8: a provisioner invoked when its principal already exists issues no
\* creation command, raises nothing and leaves the principal database as it
\* was; there is never more than one group or user with the service name.
C8_ProvisionIdempotent ==
    /\ [](/\ Count(groups, MINIO_SYSTEM_GROUP) <= 1
          /\ Count(users, MINIO_SYSTEM_USER) <= 1)
    /\ [][(handled'.name = "install" /\ Succeeded(calls', "dpkg")) =>
             /\ Exists(groups, MINIO_SYSTEM_GROUP) =>
                   /\ ~Invoked(calls', "groupadd")
                   /\ groups' = groups
                   /\ Exists(users, MINIO_SYSTEM_USER) =>
                         /\ ~Invoked(calls', "useradd")
                         /\ users' = users
                         /\ Invoked(calls', "makedirs")
             /\ (Exists(users, MINIO_SYSTEM_USER) /\ ~Failed(calls', "groupadd")) =>
                   /\ ~Invoked(calls', "useradd")
                   /\ users' = users
                   /\ Invoked(calls', "makedirs")]_vars

C8_Witness ==
    /\ handled.name = "install"
    /\ Succeeded(calls, "dpkg")
    /\ Invoked(calls, "makedirs")
    /\ ~Invoked(calls, "groupadd")
    /\ ~Invoked(calls, "useradd")
    /\ Count(groups, MINIO_SYSTEM_GROUP) = 1
    /\ Count(users, MINIO_SYSTEM_USER) = 1

\* C9: when a config-changed dispatch completes without error the environment
\* file is exactly the five KEY=VALUE lines of the configuration in force,
\* with nothing left of its earlier content.
C9_EnvFileIsRendering ==
    (handled.name = "config_changed" /\ ~raised) => envFile = Rendered(config)

C9_Witness ==
    /\ handled.name = "config_changed"
    /\ ~raised
    /\ config.region = ""
    /\ envFile = "MINIO_ROOT_USER=admin\nMINIO_ROOT_PASSWORD=secret\nMINIO_VOLUMES=/var/lib/minio\nMINIO_REGION=\nMINIO_OPTS=--address :9000 --console-address :9001\n"

\* C10: when the restart fails after the environment file was written, the
\* file keeps the new configuration and the unit status stays what it was;
\* a dispatch changes the status to nothing but active.
C10_RestartFailureKeepsStatus ==
    [][/\ (handled'.name = "config_changed" /\ Failed(calls', "restart")) =>
              /\ raised'
              /\ envFile' = Rendered(config)
              /\ status' = status
       /\ raised' => status' = status
       /\ status' # status => status' = UNIT_ACTIVE_STATUS]_vars

C10_Witness ==
    /\ handled.name = "config_changed"
    /\ Failed(calls, "restart")
    /\ status = UNIT_ACTIVE_STATUS
    /\ config.region = ""
    /\ envFile = Rendered(config)
====
